---- MODULE Spec2Model ----
(***************************************************************************)
(* keymap-drawer: the `draw` command of keymap_drawer/__main__.py as a     *)
(* state machine, together with the KeymapDrawer it hands its result to    *)
(* (layout resolver and diagram renderer, as specified in spec.md 4.1 and  *)
(* 4.2).                                                                   *)
(*                                                                         *)
(* Python values: a dict is a function whose DOMAIN is its set of keys, a  *)
(* list is a sequence, None is the value None below.  An insertion-ordered *)
(* dict whose order is observed (qmk_info["layouts"]) is a sequence of     *)
(* [name, value] items with distinct names.                                *)
(***************************************************************************)
EXTENDS Integers, Sequences, FiniteSets, TLC

VARIABLES
    args,          \* argparse namespace of the draw sub-command
    keymap_yaml,   \* the document behind args.layout_yaml (file or stdin)
    pc,            \* position of draw / print_board
    streams,       \* input streams currently open
    yaml_data,     \* line 20
    qmk_keyboard,  \* line 23
    qmk_layout,    \* line 24
    qmk_info,      \* lines 29 / 32
    layout,        \* lines 38 / 44
    drawer,        \* line 46
    geoms,         \* resolved KeyGeometry sequence
    idx,           \* layers, then combos, rendered so far
    doc,           \* the vector document under construction
    out,           \* documents written to the output stream
    err,           \* the exception that ended the command, or None
    trace          \* externally visible steps taken so far

vars == <<args, keymap_yaml, pc, streams, yaml_data, qmk_keyboard, qmk_layout,
          qmk_info, layout, drawer, geoms, idx, doc, out, err, trace>>

----------------------------------------------------------------------------
(* Bounds of the model.                                                    *)

MaxRows == 2
MaxCols == 2
MaxLayers == 2
MaxLayerLen == 3

----------------------------------------------------------------------------
(* Python values.                                                          *)

None == "<None>"
EmptyDict == << >>

\* bool(v) for a value that is None or a str
Truthy(v) == v # None /\ v # ""

\* d.get(k)
Get(d, k) == IF k \in DOMAIN d THEN d[k] ELSE None

\* d.get(k, default)
GetOr(d, k, default) == IF k \in DOMAIN d THEN d[k] ELSE default

\* a or b
PyOr(a, b) == IF Truthy(a) THEN a ELSE b

\* next(iter(items.values())) on an insertion-ordered dict
FirstValue(items) == items[1].value

\* names of an insertion-ordered dict
Names(items) == {items[i].name : i \in 1..Len(items)}

\* items[name], for name in Names(items)
Lookup(items, name) ==
    items[CHOOSE i \in 1..Len(items) : items[i].name = name].value

----------------------------------------------------------------------------
(* Inputs: command lines, keymap documents, QMK info documents.            *)

\* argparse: -j and -k are in one mutually exclusive group (lines 65-74),
\* so at most one of them is present; an absent option is None.
ArgsOf(J, K, L, Y) ==
    {a \in [qmk_info_json : J, qmk_keyboard : K, qmk_layout : L, layout_yaml : Y] :
        a.qmk_info_json = None \/ a.qmk_keyboard = None}

AllArgs ==
    ArgsOf({None, "", "info.json"}, {None, "", "planck/rev6"},
           {None, "", "LAYOUT_a", "LAYOUT_x"}, {"-", "keymap.yaml"})

Letters == <<"A", "B", "C", "D", "E", "F", "G", "H">>

\* a layer with n label entries
LayerOfLen(n) == SubSeq(Letters, 1, n)

LayerLists(maxLayers, maxLen) ==
    UNION {[1..m -> {LayerOfLen(n) : n \in 0..maxLen}] : m \in 0..maxLayers}

\* combos: one in range on every layout of two or more keys, one with a
\* negative index, one with an index beyond every layout of the model
ComboAB == [keys |-> <<0, 1>>, label |-> "AB"]
ComboNeg == [keys |-> <<-1, 0>>, label |-> "NEG"]
ComboBig == [keys |-> <<1, MaxRows * MaxCols>>, label |-> "BIG"]

ComboLists ==
    {<<>>, <<ComboAB>>, <<ComboNeg>>, <<ComboBig>>,
     <<ComboAB, ComboBig>>, <<ComboNeg, ComboAB>>}

\* the "layout" mapping of the keymap YAML: ortho parameters, QMK names,
\* and possibly a type tag of its own
OrthoParams(R, C) ==
    {[rows |-> r, cols |-> c, pitch_x |-> 2, pitch_y |-> 3] : r \in R, c \in C}

NameParams ==
    {k @@ l : k \in {EmptyDict, [qmk_keyboard |-> ""], [qmk_keyboard |-> "ferris/sweep"]},
              l \in {EmptyDict, [qmk_layout |-> ""], [qmk_layout |-> "LAYOUT_b"]}}

TagParams == {EmptyDict, [ltype |-> "qmk"], [ltype |-> "ortho"]}

\* a dict with the one key k, for each value in vs
Field(k, vs) == {k :> v : v \in vs}

\* a keymap document from a choice of each top-level field (EmptyDict: absent)
Docs(layersFields, layoutFields, combosFields) ==
    {a @@ b @@ c : a \in layersFields, b \in layoutFields, c \in combosFields}

Keys2 == <<[x |-> 0, y |-> 0], [x |-> 1, y |-> 0]>>
Keys3 == <<[x |-> 0, y |-> 0], [x |-> 1, y |-> 0], [x |-> 2, y |-> 1]>>

Item(n, ks) == [name |-> n, value |-> [layout |-> ks]]

\* contents of a QMK info.json
QmkInfos ==
    {EmptyDict,
     [layouts |-> <<>>],
     [layouts |-> <<Item("LAYOUT_a", Keys2)>>],
     [layouts |-> <<Item("LAYOUT_a", Keys2), Item("LAYOUT_b", Keys3)>>],
     [layouts |-> <<Item("LAYOUT_b", Keys3), Item("LAYOUT_a", Keys2)>>]}

\* bodies of https://keyboards.qmk.fm/v1/keyboards/<kb>/info.json
Responses(kb) ==
    {[keyboards |-> EmptyDict]} \cup {[keyboards |-> (kb :> info)] : info \in QmkInfos}

----------------------------------------------------------------------------
(* draw(args), lines 18-47.                                                *)

Log(e) == trace' = Append(trace, e)

\* an exception leaves draw: nothing after the raising statement runs
Raise(e) == pc' = "failed" /\ err' = e

\* line 19: sys.stdin, or open(args.layout_yaml, "rb"), which may raise
OpenYaml ==
    /\ pc = "open_yaml"
    /\ \/ /\ args.layout_yaml = "-"
          /\ streams' = streams \cup {"stdin"}
          /\ pc' = "load_yaml"
          /\ Log("open:stdin")
          /\ err' = err
       \/ /\ args.layout_yaml # "-"
          /\ streams' = streams \cup {"keymap"}
          /\ pc' = "load_yaml"
          /\ Log("open:keymap")
          /\ err' = err
       \/ /\ args.layout_yaml # "-"
          /\ Raise("OSError")
          /\ UNCHANGED <<streams, trace>>
    /\ UNCHANGED <<args, keymap_yaml, yaml_data, qmk_keyboard, qmk_layout,
                   qmk_info, layout, drawer, geoms, idx, doc, out>>

\* LoadYaml with the assert of line 21 left out (as under python -O):
\* the fault that C8_FixedOrder has to detect
LoadYamlNoAssert ==
    /\ pc = "load_yaml"
    /\ streams' = streams \ {"stdin", "keymap"}
    /\ \/ /\ Raise("YAMLError")
          /\ UNCHANGED <<yaml_data, trace>>
       \/ /\ yaml_data' = keymap_yaml
          /\ pc' = "names" /\ err' = err /\ Log("layers_ok")
    /\ UNCHANGED <<args, keymap_yaml, qmk_keyboard, qmk_layout, qmk_info,
                   layout, drawer, geoms, idx, doc, out>>

\* lines 20-21 and the exit of the with block, which closes f on every path
LoadYaml ==
    /\ pc = "load_yaml"
    /\ streams' = streams \ {"stdin", "keymap"}
    /\ \/ /\ Raise("YAMLError")
          /\ UNCHANGED <<yaml_data, trace>>
       \/ /\ yaml_data' = keymap_yaml
          /\ IF "layers" \in DOMAIN keymap_yaml
                THEN pc' = "names" /\ err' = err /\ Log("layers_ok")
                ELSE Raise("AssertionError") /\ UNCHANGED trace
    /\ UNCHANGED <<args, keymap_yaml, qmk_keyboard, qmk_layout, qmk_info,
                   layout, drawer, geoms, idx, doc, out>>

\* line 23 with the operands of `or` exchanged: the YAML's name wins.
\* The fault that C9_CommandLineUnlessEmpty has to detect
SelectKeyboardYamlFirst(a, yd) ==
    PyOr(Get(GetOr(yd, "layout", EmptyDict), "qmk_keyboard"), a.qmk_keyboard)

\* line 23
SelectKeyboard(a, yd) ==
    PyOr(a.qmk_keyboard, Get(GetOr(yd, "layout", EmptyDict), "qmk_keyboard"))

\* line 24
SelectLayoutName(a, yd) ==
    PyOr(a.qmk_layout, Get(GetOr(yd, "layout", EmptyDict), "qmk_layout"))

\* lines 23-24
SelectNames ==
    /\ pc = "names"
    /\ qmk_keyboard' = SelectKeyboard(args, yaml_data)
    /\ qmk_layout' = SelectLayoutName(args, yaml_data)
    /\ pc' = "source"
    /\ UNCHANGED <<args, keymap_yaml, streams, yaml_data, qmk_info, layout,
                   drawer, geoms, idx, doc, out, err, trace>>

\* line 26
UsesQmk(kb, a) == Truthy(kb) \/ Truthy(a.qmk_info_json)

\* line 27
UsesNetwork(kb, a) == Truthy(kb)

\* lines 26-28: urlopen(...), which may raise
OpenUrl ==
    /\ pc = "source"
    /\ UsesQmk(qmk_keyboard, args)
    /\ UsesNetwork(qmk_keyboard, args)
    /\ \/ /\ streams' = streams \cup {"http"}
          /\ pc' = "load_url"
          /\ err' = err
       \/ /\ Raise("URLError")
          /\ UNCHANGED streams
    /\ Log("urlopen")
    /\ UNCHANGED <<args, keymap_yaml, yaml_data, qmk_keyboard, qmk_layout,
                   qmk_info, layout, drawer, geoms, idx, doc, out>>

\* LoadUrl without the with block: the response is closed on the normal
\* path only.  The fault that C10_StreamsClosed has to detect
LoadUrlLeak ==
    /\ pc = "load_url"
    /\ \/ /\ Raise("JSONDecodeError")
          /\ UNCHANGED <<qmk_info, streams>>
       \/ \E resp \in Responses(qmk_keyboard) :
            IF qmk_keyboard \in DOMAIN resp.keyboards
               THEN /\ qmk_info' = resp.keyboards[qmk_keyboard]
                    /\ streams' = streams \ {"http"}
                    /\ pc' = "pick"
                    /\ err' = err
               ELSE /\ Raise("KeyError")
                    /\ UNCHANGED <<qmk_info, streams>>
    /\ UNCHANGED <<args, keymap_yaml, yaml_data, qmk_keyboard, qmk_layout,
                   layout, drawer, geoms, idx, doc, out, trace>>

\* line 29 and the exit of the with block
LoadUrl ==
    /\ pc = "load_url"
    /\ streams' = streams \ {"http"}
    /\ \/ /\ Raise("JSONDecodeError")
          /\ UNCHANGED qmk_info
       \/ \E resp \in Responses(qmk_keyboard) :
            IF qmk_keyboard \in DOMAIN resp.keyboards
               THEN /\ qmk_info' = resp.keyboards[qmk_keyboard]
                    /\ pc' = "pick"
                    /\ err' = err
               ELSE /\ Raise("KeyError")
                    /\ UNCHANGED qmk_info
    /\ UNCHANGED <<args, keymap_yaml, yaml_data, qmk_keyboard, qmk_layout,
                   layout, drawer, geoms, idx, doc, out, trace>>

\* lines 30-31: open(args.qmk_info_json, "rb"), which may raise
OpenInfoFile ==
    /\ pc = "source"
    /\ UsesQmk(qmk_keyboard, args)
    /\ ~UsesNetwork(qmk_keyboard, args)
    /\ \/ /\ streams' = streams \cup {"info"}
          /\ pc' = "load_file"
          /\ err' = err
          /\ Log("open:info")
       \/ /\ Raise("OSError")
          /\ UNCHANGED <<streams, trace>>
    /\ UNCHANGED <<args, keymap_yaml, yaml_data, qmk_keyboard, qmk_layout,
                   qmk_info, layout, drawer, geoms, idx, doc, out>>

\* line 32 and the exit of the with block
LoadInfoFile ==
    /\ pc = "load_file"
    /\ streams' = streams \ {"info"}
    /\ \/ /\ Raise("JSONDecodeError")
          /\ UNCHANGED qmk_info
       \/ \E info \in QmkInfos :
            /\ qmk_info' = info
            /\ pc' = "pick"
            /\ err' = err
    /\ UNCHANGED <<args, keymap_yaml, yaml_data, qmk_keyboard, qmk_layout,
                   layout, drawer, geoms, idx, doc, out, trace>>

\* lines 34-38 with a lenient lookup, layouts.get(name, first): an unknown
\* name falls back to the first layout.  The fault that C1_NoPartialOutput
\* has to detect
QmkDescriptorFallback(info, name) ==
    IF "layouts" \notin DOMAIN info THEN [ok |-> FALSE, exc |-> "KeyError"]
    ELSE IF info.layouts = <<>> THEN [ok |-> FALSE, exc |-> "StopIteration"]
    ELSE IF name # None /\ name \in Names(info.layouts)
       THEN [ok |-> TRUE,
             value |-> [ltype |-> "qmk", layout |-> Lookup(info.layouts, name).layout]]
       ELSE [ok |-> TRUE,
             value |-> [ltype |-> "qmk", layout |-> FirstValue(info.layouts).layout]]

\* lines 34-38 taking the last layout of the map where line 35 takes the
\* first.  The fault that C6_EffectiveNameOrFirst has to detect
QmkDescriptorLast(info, name) ==
    IF "layouts" \notin DOMAIN info THEN [ok |-> FALSE, exc |-> "KeyError"]
    ELSE IF name = None
       THEN IF info.layouts = <<>>
               THEN [ok |-> FALSE, exc |-> "StopIteration"]
               ELSE [ok |-> TRUE,
                     value |-> [ltype |-> "qmk",
                                layout |-> info.layouts[Len(info.layouts)].value.layout]]
       ELSE IF name \in Names(info.layouts)
               THEN [ok |-> TRUE,
                     value |-> [ltype |-> "qmk", layout |-> Lookup(info.layouts, name).layout]]
               ELSE [ok |-> FALSE, exc |-> "KeyError"]

\* lines 34-38: [ok, value or exception]
QmkDescriptor(info, name) ==
    IF "layouts" \notin DOMAIN info THEN [ok |-> FALSE, exc |-> "KeyError"]
    ELSE IF name = None
       THEN IF info.layouts = <<>>
               THEN [ok |-> FALSE, exc |-> "StopIteration"]
               ELSE [ok |-> TRUE,
                     value |-> [ltype |-> "qmk", layout |-> FirstValue(info.layouts).layout]]
       ELSE IF name \in Names(info.layouts)
               THEN [ok |-> TRUE,
                     value |-> [ltype |-> "qmk", layout |-> Lookup(info.layouts, name).layout]]
               ELSE [ok |-> FALSE, exc |-> "KeyError"]

\* lines 34-38
PickLayout ==
    /\ pc = "pick"
    /\ LET r == QmkDescriptor(qmk_info, qmk_layout) IN
         IF r.ok
            THEN layout' = r.value /\ pc' = "construct" /\ err' = err
            ELSE Raise(r.exc) /\ UNCHANGED layout
    /\ UNCHANGED <<args, keymap_yaml, streams, yaml_data, qmk_keyboard,
                   qmk_layout, qmk_info, drawer, geoms, idx, doc, out, trace>>

\* line 44 without the **yaml_data["layout"]: the grid parameters are lost.
\* The fault that C4_OrthoRowMajor has to detect
OrthoDescriptorTagOnly(yd) == [ltype |-> "ortho"]

\* line 44: {"ltype": "ortho", **yaml_data["layout"]}; later keys win
OrthoDescriptor(yd) == yd.layout @@ [ltype |-> "ortho"]

\* lines 39-44
OrthoLayout ==
    /\ pc = "source"
    /\ ~UsesQmk(qmk_keyboard, args)
    /\ IF "layout" \in DOMAIN yaml_data
          THEN layout' = OrthoDescriptor(yaml_data) /\ pc' = "construct" /\ err' = err
          ELSE Raise("AssertionError") /\ UNCHANGED layout
    /\ UNCHANGED <<args, keymap_yaml, streams, yaml_data, qmk_keyboard,
                   qmk_layout, qmk_info, drawer, geoms, idx, doc, out, trace>>

\* line 46 passing the first layer only.  The fault that C3_LayerLength has
\* to detect
DrawerArgsFirstLayer(yd, lay) ==
    [layers |-> IF yd.layers = <<>> THEN <<>> ELSE <<Head(yd.layers)>>, layout |-> lay,
     combos |-> GetOr(yd, "combos", <<>>)]

\* line 46: the keyword arguments of KeymapDrawer(...)
DrawerArgs(yd, lay) ==
    [layers |-> yd.layers, layout |-> lay, combos |-> GetOr(yd, "combos", <<>>)]

\* line 46
Construct ==
    /\ pc = "construct"
    /\ IF "layers" \in DOMAIN yaml_data
          THEN /\ drawer' = DrawerArgs(yaml_data, layout)
               /\ pc' = "print"
               /\ err' = err
               /\ Log("construct")
          ELSE /\ Raise("KeyError")
               /\ UNCHANGED <<drawer, trace>>
    /\ UNCHANGED <<args, keymap_yaml, streams, yaml_data, qmk_keyboard,
                   qmk_layout, qmk_info, layout, geoms, idx, doc, out>>

\* line 47: drawer.print_board() is entered
PrintBoard ==
    /\ pc = "print"
    /\ pc' = "resolve"
    /\ Log("print_board")
    /\ UNCHANGED <<args, keymap_yaml, streams, yaml_data, qmk_keyboard,
                   qmk_layout, qmk_info, layout, drawer, geoms, idx, doc, out, err>>

----------------------------------------------------------------------------
(* KeymapDrawer: the layout resolver (spec.md 4.1) and the diagram         *)
(* renderer (spec.md 4.2), run by print_board in the order of spec.md 5:   *)
(* resolve layout, render all layers, render all combos, serialize.        *)

Blank == "<blank>"
EmptyDoc == [layers |-> <<>>, combos |-> <<>>]

\* one row of an ortho grid, left to right; base is the index of its first key
OrthoRow(r, d, base) ==
    [c \in 1..d.cols |->
        [index |-> base + c - 1,
         x |-> (c - 1) * d.pitch_x, y |-> r * d.pitch_y,
         w |-> d.pitch_x, h |-> d.pitch_y, rot |-> 0]]

\* rows r, r+1, ... appended to the keys placed so far
RECURSIVE OrthoRows(_, _, _)
OrthoRows(r, d, placed) ==
    IF r >= d.rows THEN placed
    ELSE OrthoRows(r + 1, d, placed \o OrthoRow(r, d, Len(placed)))

\* an explicit key list passed through, defaults filled in
ExplicitKeys(ks) ==
    [i \in 1..Len(ks) |->
        [index |-> i - 1, x |-> ks[i].x, y |-> ks[i].y,
         w |-> GetOr(ks[i], "w", 1), h |-> GetOr(ks[i], "h", 1),
         rot |-> GetOr(ks[i], "r", 0)]]

\* resolve(descriptor): [ok, keys]
ResolveLayout(d) ==
    IF Get(d, "ltype") = "ortho"
       THEN IF /\ {"rows", "cols", "pitch_x", "pitch_y"} \subseteq DOMAIN d
               /\ d.rows > 0
               /\ d.cols > 0
               THEN [ok |-> TRUE, keys |-> OrthoRows(0, d, <<>>)]
               ELSE [ok |-> FALSE, keys |-> <<>>]
       ELSE IF /\ "layout" \in DOMAIN d
               /\ \A i \in 1..Len(d.layout) : {"x", "y"} \subseteq DOMAIN d.layout[i]
               THEN [ok |-> TRUE, keys |-> ExplicitKeys(d.layout)]
               ELSE [ok |-> FALSE, keys |-> <<>>]

\* the sub-drawing of one layer: a glyph per key, blank beyond the labels
LayerGroup(layer, keys) ==
    [i \in 1..Len(keys) |->
        [key |-> keys[i],
         label |-> IF i <= Len(layer) THEN layer[i] ELSE Blank]]

\* a layer with more entries than keys has entries without a target key
LayerFits(layer, keys) == Len(layer) <= Len(keys)

\* every index a combo references exists, and it references two or more
ComboValid(combo, keys) ==
    /\ Len(combo.keys) >= 2
    /\ \A j \in 1..Len(combo.keys) : combo.keys[j] >= 0 /\ combo.keys[j] < Len(keys)

RECURSIVE SumOver(_, _, _)
SumOver(ks, keys, coord) ==
    IF ks = <<>> THEN 0
    ELSE keys[Head(ks) + 1][coord] + SumOver(Tail(ks), keys, coord)

\* the overlay of one combo: marker at the centroid of the referenced key
\* centers (as sums over a common count), one connector per referenced key
ComboMark(combo, keys) ==
    [label |-> combo.label,
     sum_x |-> SumOver(combo.keys, keys, "x"),
     sum_y |-> SumOver(combo.keys, keys, "y"),
     count |-> Len(combo.keys),
     lines |-> [j \in 1..Len(combo.keys) |->
                  [x |-> keys[combo.keys[j] + 1].x, y |-> keys[combo.keys[j] + 1].y]]]

Resolve ==
    /\ pc = "resolve"
    /\ LET r == ResolveLayout(drawer.layout) IN
         IF r.ok
            THEN /\ geoms' = r.keys
                 /\ idx' = 0
                 /\ doc' = EmptyDoc
                 /\ pc' = "layers"
                 /\ err' = err
            ELSE /\ Raise("InvalidLayoutError")
                 /\ UNCHANGED <<geoms, idx, doc>>
    /\ UNCHANGED <<args, keymap_yaml, streams, yaml_data, qmk_keyboard,
                   qmk_layout, qmk_info, layout, drawer, out, trace>>

RenderLayer ==
    /\ pc = "layers"
    /\ idx < Len(drawer.layers)
    /\ LET layer == drawer.layers[idx + 1] IN
         IF LayerFits(layer, geoms)
            THEN /\ doc' = [doc EXCEPT !.layers = Append(@, LayerGroup(layer, geoms))]
                 /\ idx' = idx + 1
                 /\ pc' = pc
                 /\ err' = err
            ELSE /\ Raise("InvalidLayerError")
                 /\ UNCHANGED <<idx, doc>>
    /\ UNCHANGED <<args, keymap_yaml, streams, yaml_data, qmk_keyboard,
                   qmk_layout, qmk_info, layout, drawer, geoms, out, trace>>

LayersDone ==
    /\ pc = "layers"
    /\ idx = Len(drawer.layers)
    /\ pc' = "combos"
    /\ idx' = 0
    /\ UNCHANGED <<args, keymap_yaml, streams, yaml_data, qmk_keyboard,
                   qmk_layout, qmk_info, layout, drawer, geoms, doc, out, err, trace>>

RenderCombo ==
    /\ pc = "combos"
    /\ idx < Len(drawer.combos)
    /\ LET combo == drawer.combos[idx + 1] IN
         IF ComboValid(combo, geoms)
            THEN /\ doc' = [doc EXCEPT !.combos = Append(@, ComboMark(combo, geoms))]
                 /\ idx' = idx + 1
                 /\ pc' = pc
                 /\ err' = err
            ELSE /\ Raise("InvalidComboError")
                 /\ UNCHANGED <<idx, doc>>
    /\ UNCHANGED <<args, keymap_yaml, streams, yaml_data, qmk_keyboard,
                   qmk_layout, qmk_info, layout, drawer, geoms, out, trace>>

\* the finished document is written to the output stream in one piece
Serialize ==
    /\ pc = "combos"
    /\ idx = Len(drawer.combos)
    /\ out' = Append(out, doc)
    /\ pc' = "done"
    /\ UNCHANGED <<args, keymap_yaml, streams, yaml_data, qmk_keyboard,
                   qmk_layout, qmk_info, layout, drawer, geoms, idx, doc, err, trace>>

----------------------------------------------------------------------------
(* Specifications.                                                         *)

InitWith(argSet, docSet) ==
    /\ args \in argSet
    /\ keymap_yaml \in docSet
    /\ pc = "open_yaml"
    /\ streams = {}
    /\ yaml_data = EmptyDict
    /\ qmk_keyboard = None
    /\ qmk_layout = None
    /\ qmk_info = EmptyDict
    /\ layout = EmptyDict
    /\ drawer = EmptyDict
    /\ geoms = <<>>
    /\ idx = 0
    /\ doc = EmptyDoc
    /\ out = <<>>
    /\ err = None
    /\ trace = <<>>

\* every command line, against keymaps that vary in their "layout" field
SourceDocs ==
    Docs({EmptyDict} \cup Field("layers", {<<LayerOfLen(2)>>}),
         {EmptyDict} \cup Field("layout",
             {g @@ n @@ t : g \in {EmptyDict} \cup OrthoParams({1}, {0, 2}),
                            n \in NameParams, t \in TagParams}),
         {EmptyDict} \cup Field("combos", {<<ComboAB>>}))

Init == InitWith(AllArgs, SourceDocs)

Next ==
    \/ OpenYaml
    \/ LoadYaml
    \/ SelectNames
    \/ OpenUrl
    \/ LoadUrl
    \/ OpenInfoFile
    \/ LoadInfoFile
    \/ PickLayout
    \/ OrthoLayout
    \/ Construct
    \/ PrintBoard
    \/ Resolve
    \/ RenderLayer
    \/ LayersDone
    \/ RenderCombo
    \/ Serialize

Spec == Init /\ [][Next]_vars

\* one command line per layout source, against keymaps that vary in their
\* layers and combos, and in their ortho grid where that is the source
OrthoArgs == ArgsOf({None}, {None}, {None}, {"keymap.yaml"})

QmkArgs ==
    ArgsOf({None, "info.json"}, {None, "planck/rev6"}, {None, "LAYOUT_b"}, {"keymap.yaml"})
        \ ArgsOf({None}, {None}, {None, "LAYOUT_b"}, {"keymap.yaml"})

RenderDocs(layoutFields) ==
    Docs(Field("layers", LayerLists(MaxLayers, MaxLayerLen)),
         layoutFields,
         {EmptyDict} \cup Field("combos", ComboLists))

InitRender ==
    \/ InitWith(OrthoArgs,
                RenderDocs({EmptyDict} \cup
                           Field("layout", {EmptyDict} \cup OrthoParams(0..MaxRows, 0..MaxCols))))
    \/ InitWith(QmkArgs, RenderDocs({EmptyDict}))

SpecRender == InitRender /\ [][Next]_vars

----------------------------------------------------------------------------
(* Vocabulary of the properties.                                           *)

Terminal == pc \in {"done", "failed"}

InTrace(e) == \E i \in 1..Len(trace) : trace[i] = e

\* lines 23-24 have run
NamesSelected == InTrace("layers_ok") /\ pc # "names"

\* the value of layout.<k> in the keymap YAML, None when there is none
YamlName(k) ==
    IF "layout" \in DOMAIN keymap_yaml /\ k \in DOMAIN keymap_yaml.layout
       THEN keymap_yaml.layout[k]
       ELSE None

\* a QMK source was supplied: an info.json path, or a keyboard name
QmkSupplied == NamesSelected /\ (Truthy(qmk_keyboard) \/ Truthy(args.qmk_info_json))

\* the ortho parameters of the YAML are the source
OrthoSupplied == NamesSelected /\ ~Truthy(qmk_keyboard) /\ ~Truthy(args.qmk_info_json)

\* lines 26-44 have built the descriptor
LayoutBuilt == layout # EmptyDict

\* a QMK info document has been loaded
InfoLoaded == "layouts" \in DOMAIN qmk_info

\* Resolve has run and succeeded: geoms are the keys of the drawing
Resolved ==
    \/ pc \in {"layers", "combos", "done"}
    \/ pc = "failed" /\ err \in {"InvalidLayerError", "InvalidComboError"}

YamlLayers == keymap_yaml.layers
YamlCombos == GetOr(keymap_yaml, "combos", <<>>)

ComboOutOfRange(c) ==
    \E j \in 1..Len(c.keys) : c.keys[j] < 0 \/ c.keys[j] >= Len(geoms)

HasBadCombo == \E i \in 1..Len(YamlCombos) : ComboOutOfRange(YamlCombos[i])

AllLayersFit == \A j \in 1..Len(YamlLayers) : Len(YamlLayers[j]) <= Len(geoms)

\* the loading failures of draw
KeymapLacksLayers == "layers" \notin DOMAIN keymap_yaml

NoLayoutAvailable == OrthoSupplied /\ "layout" \notin DOMAIN keymap_yaml

NamedLayoutMissing ==
    /\ QmkSupplied
    /\ InfoLoaded
    /\ qmk_layout # None
    /\ \A i \in 1..Len(qmk_info.layouts) : qmk_info.layouts[i].name # qmk_layout

ReadFailed == err \in {"OSError", "URLError", "YAMLError", "JSONDecodeError"}

\* the order of the steps of draw
Rank(e) ==
    CASE e \in {"open:stdin", "open:keymap"} -> 1
      [] e = "layers_ok" -> 2
      [] e \in {"urlopen", "open:info"} -> 3
      [] e = "construct" -> 4
      [] e = "print_board" -> 5

\* the layout the drawer gets is entry i of the loaded info's "layouts"
PickedEntry(i) ==
    /\ i \in 1..Len(qmk_info.layouts)
    /\ layout = [ltype |-> "qmk", layout |-> qmk_info.layouts[i].value.layout]

\* PickLayout raised: the info was loaded and no descriptor was built
PickFailed == pc = "failed" /\ QmkSupplied /\ InfoLoaded /\ ~LayoutBuilt

PicksBy(name) ==
    /\ LayoutBuilt /\ QmkSupplied =>
          /\ InfoLoaded
          /\ IF name = None
                THEN PickedEntry(1)
                ELSE \E i \in 1..Len(qmk_info.layouts) :
                        qmk_info.layouts[i].name = name /\ PickedEntry(i)
          /\ drawer # EmptyDict => drawer.layout = layout
    /\ PickFailed =>
          IF name = None
             THEN qmk_info.layouts = <<>>
             ELSE \A i \in 1..Len(qmk_info.layouts) : qmk_info.layouts[i].name # name

\* the first combo with an index out of range, given HasBadCombo
FirstBadCombo == CHOOSE i \in 1..Len(YamlCombos) :
    /\ ComboOutOfRange(YamlCombos[i])
    /\ \A j \in 1..(i - 1) : ~ComboOutOfRange(YamlCombos[j])

\* group j of the document is layer j of the keymap, padded with blanks
DrawnAsLayer(group, layer) ==
    /\ Len(group) = Len(geoms)
    /\ Len(layer) <= Len(geoms)
    /\ \A i \in 1..Len(geoms) :
          /\ group[i].key = geoms[i]
          /\ i <= Len(layer) => group[i].label = layer[i]
          /\ i > Len(layer) => group[i].label = Blank

\* the keymap YAML selects, and validly describes, an ortho grid
ValidOrthoYaml ==
    /\ OrthoSupplied
    /\ "layout" \in DOMAIN keymap_yaml
    /\ {"rows", "cols", "pitch_x", "pitch_y"} \subseteq DOMAIN keymap_yaml.layout
    /\ Get(keymap_yaml.layout, "ltype") \in {None, "ortho"}
    /\ keymap_yaml.layout.rows > 0
    /\ keymap_yaml.layout.cols > 0

\* Resolve has run, successfully or not
ResolveRan == InTrace("print_board") /\ pc # "resolve"

----------------------------------------------------------------------------
(* C1: the draw command never produces partial output.  Nothing is on the  *)
(* output stream before print_board serializes, what is then written is    *)
(* the one complete document, and whenever loading fails (the keymap has   *)
(* no "layers", no physical layout is available, the named QMK layout does *)
(* not exist, or a file or network read fails) the output stream is empty  *)
(* in every state, the last one included.                                  *)

C1_NoPartialOutput ==
    /\ out # <<>> => pc = "done" /\ InTrace("print_board") /\ out = <<doc>>
    /\ KeymapLacksLayers \/ NoLayoutAvailable \/ NamedLayoutMissing \/ ReadFailed
          => out = <<>>

C1_Witness ==
    /\ pc = "failed"
    /\ NamedLayoutMissing
    /\ err = "KeyError"
    /\ out = <<>>

----------------------------------------------------------------------------
(* C8: draw runs its steps in one fixed order: read the keymap YAML, check *)
(* "layers", select and load the physical layout, construct the drawer,    *)
(* print.  A keymap without "layers" is rejected before any QMK info file  *)
(* is opened or any network request is made; the drawer is constructed and *)
(* print_board entered at most once, and only with the descriptor built.   *)

C8_FixedOrder ==
    /\ \A i \in 1..Len(trace) : Rank(trace[i]) = 1 <=> i = 1
    /\ \A i \in 1..Len(trace), j \in 1..Len(trace) :
          i < j => Rank(trace[i]) < Rank(trace[j])
    /\ \A i \in 2..Len(trace) : Rank(trace[i]) > 2 => trace[2] = "layers_ok"
    /\ InTrace("print_board") => InTrace("construct")
    /\ KeymapLacksLayers => ~InTrace("urlopen") /\ ~InTrace("open:info")
    /\ InTrace("construct") =>
          /\ LayoutBuilt
          /\ "ltype" \in DOMAIN layout
          /\ drawer.layout = layout
          /\ QmkSupplied => InfoLoaded /\ (InTrace("urlopen") \/ InTrace("open:info"))

C8_Witness ==
    /\ pc = "done"
    /\ trace = <<"open:keymap", "layers_ok", "urlopen", "construct", "print_board">>

----------------------------------------------------------------------------
(* C10: every input stream draw opens (the keymap file or stdin, the QMK   *)
(* info file, the HTTP response) is closed on every exit path, normal or   *)
(* failing, and before the drawer is constructed; at most one is open at   *)
(* any time.                                                               *)

C10_StreamsClosed ==
    /\ Cardinality(streams) <= 1
    /\ Terminal => streams = {}
    /\ pc = "construct" \/ InTrace("construct") => streams = {}

C10_Witness ==
    /\ pc = "failed"
    /\ err = "JSONDecodeError"
    /\ InTrace("urlopen")
    /\ streams = {}

----------------------------------------------------------------------------
(* C9, as claimed: for the keyboard name and for the layout name, a value  *)
(* given on the command line is used in preference to the YAML's, the      *)
(* YAML's only when the option is absent; a YAML without "layout" yields   *)
(* no value, and no error, at this step.                                   *)

C9_CommandLineUnlessAbsent ==
    NamesSelected =>
        /\ qmk_keyboard = IF args.qmk_keyboard # None THEN args.qmk_keyboard
                          ELSE YamlName("qmk_keyboard")
        /\ qmk_layout = IF args.qmk_layout # None THEN args.qmk_layout
                        ELSE YamlName("qmk_layout")

(* C9, amended: a non-empty value given on the command line is used in     *)
(* preference to the YAML's; the YAML's is used when the option is absent  *)
(* or empty; a YAML without "layout" then yields no value (None), and the  *)
(* step raises nothing.                                                    *)

C9_CommandLineUnlessEmpty ==
    /\ NamesSelected =>
        /\ qmk_keyboard = IF args.qmk_keyboard \notin {None, ""} THEN args.qmk_keyboard
                          ELSE YamlName("qmk_keyboard")
        /\ qmk_layout = IF args.qmk_layout \notin {None, ""} THEN args.qmk_layout
                        ELSE YamlName("qmk_layout")
        /\ "layout" \notin DOMAIN keymap_yaml =>
              /\ args.qmk_keyboard \in {None, ""} => qmk_keyboard = None
              /\ args.qmk_layout \in {None, ""} => qmk_layout = None
    /\ pc = "source" => err = None

C9_Witness ==
    /\ pc = "source"
    /\ args.qmk_keyboard = "planck/rev6"
    /\ YamlName("qmk_keyboard") = "ferris/sweep"
    /\ qmk_keyboard = "planck/rev6"
    /\ args.qmk_layout = None
    /\ qmk_layout = "LAYOUT_b"

----------------------------------------------------------------------------
(* C6, as claimed: with a QMK info source and no layout name given         *)
(* (neither --qmk-layout nor layout.qmk_layout), the first entry of the    *)
(* info's "layouts" is used; with a name given, the layout of exactly that *)
(* name, and a name not in the map is an error, never the first layout.    *)
(* Exactly one layout reaches the drawer.                                  *)

C6_GivenNameOrFirst ==
    PicksBy(IF args.qmk_layout # None THEN args.qmk_layout ELSE YamlName("qmk_layout"))

(* C6, amended: the name in effect is the --qmk-layout value unless that   *)
(* is absent or empty, and layout.qmk_layout of the YAML otherwise.  With  *)
(* no name in effect the first entry of "layouts" is used; with a name in  *)
(* effect the layout of exactly that name, and a name not in the map is an *)
(* error, never the first layout.  Exactly one layout reaches the drawer.  *)

C6_EffectiveNameOrFirst ==
    PicksBy(IF args.qmk_layout \notin {None, ""} THEN args.qmk_layout
            ELSE YamlName("qmk_layout"))

C6_Witness ==
    /\ pc = "done"
    /\ QmkSupplied
    /\ args.qmk_layout = None
    /\ YamlName("qmk_layout") = None
    /\ Len(qmk_info.layouts) = 2
    /\ qmk_info.layouts[1].name = "LAYOUT_b"
    /\ PickedEntry(1)

----------------------------------------------------------------------------
(* C7: whenever --qmk-info-json PATH is given, the physical layout comes   *)
(* from that file: the file is read, the descriptor is built from its      *)
(* layouts, and no network request for keyboard info is made.              *)

C7_InfoJsonIsTheSource ==
    Truthy(args.qmk_info_json) =>
        /\ ~InTrace("urlopen")
        /\ LayoutBuilt => InTrace("open:info") /\ layout.ltype = "qmk"

----------------------------------------------------------------------------
(* C5: the descriptor handed to KeymapDrawer has exactly one type tag, set *)
(* by the selected source alone: the QMK tag exactly when a QMK keyboard   *)
(* name or info.json was supplied, the ortho tag otherwise, whatever the   *)
(* YAML "layout" field holds.                                              *)

C5_TagBySource ==
    LayoutBuilt =>
        /\ "ltype" \in DOMAIN layout
        /\ layout.ltype = (IF QmkSupplied THEN "qmk" ELSE "ortho")
        /\ drawer # EmptyDict => drawer.layout = layout

----------------------------------------------------------------------------
(* C2: for every keymap, a combo that references a key index < 0 or >=    *)
(* the number of resolved keys makes the render fail with                  *)
(* InvalidComboError and emit no part of the document; the combo is never  *)
(* silently dropped and the remaining combos are not drawn.                *)
(*                                                                         *)
(* Not settled.  The renderer is not part of the source, and spec.md fixes *)
(* the order of the rendering stages (section 5) but not the place where   *)
(* layer lengths and combo indices are validated.  With the stage order    *)
(* taken as the validation order, as here, the formula below holds of      *)
(* every keymap whose layers all fit, and fails only for a keymap that has *)
(* an oversize layer as well, where InvalidLayerError comes first; with    *)
(* combos validated up front it would hold of every keymap.  Neither order *)
(* can be read off the program, so the failure refutes nothing.            *)

C2_BadComboIsComboError ==
    Resolved /\ HasBadCombo =>
        /\ out = <<>>
        /\ pc # "done"
        /\ pc = "failed" => err = "InvalidComboError"
        /\ Len(doc.combos) < FirstBadCombo

----------------------------------------------------------------------------
(* C3: a layer with n label entries is rendered against k resolved keys.   *)
(* If n <= k for every layer, every layer renders successfully, with its   *)
(* labels on keys 0..n-1 and blank placeholders on keys n..k-1, each in    *)
(* its geometric slot, and the document is written unless a combo is out   *)
(* of range; if n > k for some layer the render fails with                 *)
(* InvalidLayerError, the layers before it drawn in the same way.          *)

C3_LayerLength ==
    Resolved =>
        /\ Len(doc.layers) <= Len(YamlLayers)
        /\ \A j \in 1..Len(doc.layers) : DrawnAsLayer(doc.layers[j], YamlLayers[j])
        /\ Terminal /\ ~AllLayersFit => pc = "failed" /\ err = "InvalidLayerError"
        /\ Terminal /\ AllLayersFit =>
              /\ Len(doc.layers) = Len(YamlLayers)
              /\ err # "InvalidLayerError"
              /\ ~HasBadCombo => pc = "done" /\ out = <<doc>>

C3_Witness ==
    /\ pc = "done"
    /\ Len(geoms) = MaxRows * MaxCols
    /\ Len(YamlLayers) = MaxLayers
    /\ Len(YamlLayers[1]) = MaxLayerLen
    /\ MaxLayerLen < Len(geoms)
    /\ out[1].layers[1][MaxLayerLen].label = Letters[MaxLayerLen]
    /\ out[1].layers[1][MaxLayerLen + 1].label = Blank

----------------------------------------------------------------------------
(* C4: for every valid ortho descriptor (rows > 0, cols > 0) resolve       *)
(* yields exactly rows*cols key geometries in strict row-major order: the  *)
(* geometry at index i is that of row i div cols, column i mod cols, so    *)
(* the indices are contiguous, zero-based and unique.                      *)

C4_OrthoRowMajor ==
    ValidOrthoYaml /\ ResolveRan =>
        LET d == keymap_yaml.layout IN
        /\ Resolved
        /\ Len(geoms) = d.rows * d.cols
        /\ \A i \in 0..(d.rows * d.cols - 1) :
              /\ geoms[i + 1].index = i
              /\ geoms[i + 1].x = (i % d.cols) * d.pitch_x
              /\ geoms[i + 1].y = (i \div d.cols) * d.pitch_y

C4_Witness ==
    /\ ValidOrthoYaml
    /\ pc = "done"
    /\ keymap_yaml.layout.rows = MaxRows
    /\ keymap_yaml.layout.cols = MaxCols
    /\ MaxRows > 1 /\ MaxCols > 1
    /\ Len(geoms) = MaxRows * MaxCols
    /\ geoms[MaxCols + 1].x = 0
    /\ geoms[MaxCols + 1].y = keymap_yaml.layout.pitch_y
    /\ geoms[MaxCols].y = 0

====
